---------------------------- MODULE Spec2Model ----------------------------
(***************************************************************************)
(* Model of bg_remover.py: one run of main(), i.e. BackgroundRemover       *)
(* construction, process_folder (validation, find_images, the per-item     *)
(* loop, the ZIP packaging) and the exit status chosen by main().          *)
(*                                                                         *)
(* File names are sequences of one-character strings so that Path.suffix,  *)
(* Path.stem, str.lower and the ordering used by sorted() are computed     *)
(* rather than assumed.  External calls (new_session, iterdir, open/read,  *)
(* rembg.remove, Image.open, Image.save, ZipFile, ...) either return or    *)
(* raise; a KeyboardInterrupt may arrive at any program point.             *)
(***************************************************************************)
EXTENDS Integers, Sequences, FiniteSets, TLC

\* Largest number of directory entries of the input folder that is explored.
MaxFiles == 3

(***************************************************************************)
(* Characters and strings                                                  *)
(***************************************************************************)

\* The characters that occur in the modelled names, in code point order
\* ('.' < upper case < '_' < lower case), as str comparison orders them.
Chars ==
  << ".", "G", "N", "P", "_", "a", "b", "e", "g", "h", "j", "m", "n", "o", "p",
     "s", "t", "u", "w", "x" >>

Ord(c) == CHOOSE i \in 1..Len(Chars) : Chars[i] = c

\* str.lower() on one character.
LowerChar(c) ==
  CASE c = "G" -> "g"
    [] c = "N" -> "n"
    [] c = "P" -> "p"
    [] OTHER -> c

Lower(s) == [i \in 1..Len(s) |-> LowerChar(s[i])]

\* str.rfind('.') : the last position of a dot, 0 when there is none
\* (positions are 1-based here, 0-based in Python).
RFindDot(s) ==
  IF \E i \in 1..Len(s) : s[i] = "."
    THEN CHOOSE i \in 1..Len(s) : s[i] = "." /\ \A j \in (i+1)..Len(s) : s[j] # "."
    ELSE 0

\* pathlib: a suffix exists when the last dot is neither the first nor the
\* last character of the name.
HasSuffix(s) == 1 < RFindDot(s) /\ RFindDot(s) < Len(s)

\* Path.suffix
Suffix(s) == IF HasSuffix(s) THEN SubSeq(s, RFindDot(s), Len(s)) ELSE << >>

\* Path.stem
Stem(s) == IF HasSuffix(s) THEN SubSeq(s, 1, RFindDot(s) - 1) ELSE s

\* s < t for two strings: lexicographic by code point, a proper prefix first.
StrLess(s, t) ==
  \E k \in 1..(Len(t)) :
     /\ k <= Len(s) + 1
     /\ \A i \in 1..(k-1) : s[i] = t[i]
     /\ IF k = Len(s) + 1 THEN TRUE ELSE Ord(s[k]) < Ord(t[k])

(***************************************************************************)
(* The file system the run sees                                            *)
(***************************************************************************)

A_JPG     == << "a", ".", "j", "p", "g" >>
B_PNG_UP  == << "b", ".", "P", "N", "G" >>
PHOTO_JPG == << "p", "h", "o", "t", "o", ".", "j", "p", "g" >>
PHOTO_PNG == << "p", "h", "o", "t", "o", ".", "p", "n", "g" >>
NOTES_TXT == << "n", "o", "t", "e", "s", ".", "t", "x", "t" >>
SUB_PNG   == << "s", "u", "b", ".", "p", "n", "g" >>
DOT_PNG   == << ".", "p", "n", "g" >>

\* The entries an input folder may hold: name and whether is_file() is true.
\* SUB_PNG is a sub-directory with an image-like name, DOT_PNG a hidden file
\* named ".png", which has no suffix for pathlib.
Entries ==
  { [name |-> A_JPG,     is_file |-> TRUE],
    [name |-> B_PNG_UP,  is_file |-> TRUE],
    [name |-> PHOTO_JPG, is_file |-> TRUE],
    [name |-> PHOTO_PNG, is_file |-> TRUE],
    [name |-> NOTES_TXT, is_file |-> TRUE],
    [name |-> SUB_PNG,   is_file |-> FALSE],
    [name |-> DOT_PNG,   is_file |-> TRUE] }

\* BackgroundRemover.SUPPORTED_FORMATS
SUPPORTED_FORMATS ==
  { << ".", "j", "p", "g" >>,
    << ".", "j", "p", "e", "g" >>,
    << ".", "p", "n", "g" >>,
    << ".", "w", "e", "b", "p" >>,
    << ".", "b", "m", "p" >> }

\* The orders in which iterdir() may yield the entries of a folder.
Listings(d) ==
  { l \in [1..Cardinality(d) -> d] : \A i, j \in 1..Cardinality(d) : l[i] = l[j] => i = j }

(***************************************************************************)
(* find_images                                                             *)
(***************************************************************************)

\* Variant: the suffix is compared without .lower().
IsSupported_case_sensitive(e) == e.is_file /\ Suffix(e.name) \in SUPPORTED_FORMATS

\* The condition of the if in the loop of find_images.
IsSupported(e) == e.is_file /\ Lower(Suffix(e.name)) \in SUPPORTED_FORMATS

RECURSIVE Collect(_)
\* The loop of find_images: the matching paths in listing order.
Collect(l) ==
  IF l = << >> THEN << >>
  ELSE IF IsSupported(Head(l)) THEN << Head(l).name >> \o Collect(Tail(l))
  ELSE Collect(Tail(l))

\* Variant: find_images returns images without sorting.
Sorted_missing(s) == s

\* sorted(images): the ascending, stable rearrangement.  The element at
\* position k of s goes to the position given by the number of elements
\* that sort before it, itself included.
Sorted(s) ==
  LET n == Len(s)
      Rank(k) == Cardinality({ j \in 1..n : StrLess(s[j], s[k])
                                              \/ (~StrLess(s[k], s[j]) /\ j <= k) })
  IN  [i \in 1..n |-> s[CHOOSE k \in 1..n : Rank(k) = i]]

\* find_images: the loop, then return sorted(images).  (images is bound
\* to the list the loop built, so that it is computed once.)
find_images(l) ==
  CHOOSE r \in { Sorted(images) : images \in { Collect(l) } } : TRUE

(***************************************************************************)
(* Names of archive entries                                                *)
(***************************************************************************)

NO_BG_PNG == << "_", "n", "o", "_", "b", "g", ".", "p", "n", "g" >>

\* Variant: the entry is named after img_path.name instead of img_path.stem.
OutputFilename_keeps_suffix(name) == name \o NO_BG_PNG

\* output_filename = f"{img_path.stem}_no_bg.png"
OutputFilename(name) == Stem(name) \o NO_BG_PNG

\* The name of the manifest entry.
README_TXT == << "R", "E", "A", "D", "M", "E", ".", "t", "x", "t" >>

(***************************************************************************)
(* State                                                                   *)
(***************************************************************************)

VARIABLES
  pc,              \* position of the run in main() / process_folder
  exit_code,       \* status given to sys.exit, -1 while the process runs
  cause,           \* why the run ended ("" while it runs)
  at,              \* the position the run ended at ("" while it runs)
  input_kind,      \* what input_folder is: "missing", "file" or "dir"
  dir,             \* the entries of the input folder
  session,         \* self.session: "none" or "loaded"
  listing,         \* the order iterdir() yielded the entries in
  image_files,     \* the result of find_images
  idx,             \* number of completed iterations of the per-item loop
  temp_dir,        \* files of the temporary directory: name -> source it shows
  processed_files, \* list of (output_path, output_filename)
  output_zip,      \* what the output path holds
  output_before,   \* what the output path held when the run began
  log,             \* names printed by "Failed to process {name}"
  attempted,       \* the files remove_background was called on
  outcome,         \* per completed iteration: "ok" or the error caught
  interrupted      \* a KeyboardInterrupt was raised

vars ==
  << pc, exit_code, cause, at, input_kind, dir, session, listing, image_files,
     idx, temp_dir, processed_files, output_zip, output_before, log, attempted,
     outcome, interrupted >>

env == << input_kind, dir, output_before >>

loop == << idx, temp_dir, processed_files, log, attempted, outcome >>

\* The errors remove_background catches (reading, rembg.remove, Image.open).
ItemErrors == { "IoError", "InferenceError", "DecodeError" }

NoFiles == [n \in {} |-> << >>]

Absent == [state |-> "absent", entries |-> << >>]

\* A file that was at the output path before the run.
Old == [state |-> "old", entries |-> << >>]

Init ==
  /\ pc = "init"
  /\ exit_code = -1
  /\ cause = ""
  /\ at = ""
  /\ input_kind \in { "missing", "file", "dir" }
  /\ dir \in { d \in SUBSET Entries : Cardinality(d) <= MaxFiles }
  /\ input_kind # "dir" => dir = {}
  /\ session = "none"
  /\ listing = << >>
  /\ image_files = << >>
  /\ idx = 0
  /\ temp_dir = NoFiles
  /\ processed_files = << >>
  /\ output_before \in { Absent, Old }
  /\ output_zip = output_before
  /\ log = << >>
  /\ attempted = << >>
  /\ outcome = << >>
  /\ interrupted = FALSE

(***************************************************************************)
(* main(): how a run ends                                                  *)
(***************************************************************************)

\* sys.exit(code), reached for the reason why.
SysExit(code, why) ==
  /\ pc' = "exit"
  /\ exit_code' = code
  /\ cause' = why
  /\ at' = pc

\* An exception that reaches main(): both handlers call sys.exit(1).
MainExcept(why) == SysExit(1, why)

\* Variant: main() ignores the result of process_folder.
MainResult_ignored(success, why) == SysExit(0, why)

\* success = remover.process_folder(...); if success: sys.exit(0) else: sys.exit(1)
MainResult(success, why) == IF success THEN SysExit(0, why) ELSE SysExit(1, why)

(***************************************************************************)
(* BackgroundRemover.__init__ / _initialize_model                          *)
(***************************************************************************)

InitializeModelOk ==
  /\ pc = "init"
  /\ session' = "loaded"
  /\ pc' = "validate"
  /\ UNCHANGED << exit_code, cause, at, env, listing, image_files, loop,
                  output_zip, interrupted >>

\* Variant: the except branch prints and forgets sys.exit(1).
InitializeModelFails_continues ==
  /\ pc = "init"
  /\ pc' = "validate"
  /\ UNCHANGED << exit_code, cause, at, env, session, listing, image_files, loop,
                  output_zip, interrupted >>

\* new_session raises: the except branch prints and calls sys.exit(1).
InitializeModelFails ==
  /\ pc = "init"
  /\ SysExit(1, "model_load")
  /\ UNCHANGED << env, session, listing, image_files, loop, output_zip,
                  interrupted >>

(***************************************************************************)
(* process_folder: validation and discovery                                *)
(***************************************************************************)

\* if not input_folder.exists() or not input_folder.is_dir(): return False
ValidateInput ==
  /\ pc = "validate"
  /\ IF input_kind = "dir"
       THEN /\ pc' = "discover"
            /\ UNCHANGED << exit_code, cause, at >>
       ELSE MainResult(FALSE, "bad_input")
  /\ UNCHANGED << env, session, listing, image_files, loop, output_zip,
                  interrupted >>

\* image_files = self.find_images(input_folder); if not image_files: return False
Discover ==
  /\ pc = "discover"
  /\ \E l \in Listings(dir) :
       /\ listing' = l
       /\ image_files' = find_images(l)
       /\ IF image_files' = << >>
            THEN MainResult(FALSE, "no_images")
            ELSE /\ pc' = "process"
                 /\ UNCHANGED << exit_code, cause, at >>
  /\ UNCHANGED << env, session, loop, output_zip, interrupted >>

\* iterdir() or is_file() raises (e.g. PermissionError): nothing catches it
\* before main().
DiscoverFails ==
  /\ pc = "discover"
  /\ MainExcept("discovery_error")
  /\ UNCHANGED << env, session, listing, image_files, loop, output_zip,
                  interrupted >>

(***************************************************************************)
(* process_folder: the per-item loop                                       *)
(***************************************************************************)

\* The file the current iteration works on.
Current == image_files[idx + 1]

\* Where the loop goes after an iteration.
AfterItem == IF idx + 1 = Len(image_files) THEN "check" ELSE "process"

\* result_image.save(output_path): creates the file or overwrites it.
SaveTemp(files, fn, src) ==
  [n \in (DOMAIN files) \cup {fn} |-> IF n = fn THEN src ELSE files[n]]

\* remove_background returns an image (_enhance_edges falls back to the
\* decoded image when it fails, so it adds no outcome); the image is saved
\* and recorded.
ItemOk ==
  /\ pc = "process"
  /\ attempted' = Append(attempted, Current)
  /\ temp_dir' = SaveTemp(temp_dir, OutputFilename(Current), Current)
  /\ processed_files' =
       Append(processed_files,
              [path |-> OutputFilename(Current), arcname |-> OutputFilename(Current)])
  /\ outcome' = Append(outcome, "ok")
  /\ idx' = idx + 1
  /\ pc' = AfterItem
  /\ UNCHANGED << exit_code, cause, at, env, session, listing, image_files,
                  output_zip, log, interrupted >>

\* Variant: the except branch prints the failure and re-raises.
RemoveBackgroundFails_raises(reason) ==
  /\ log' = Append(log, Current)
  /\ outcome' = Append(outcome, reason)
  /\ temp_dir' = NoFiles
  /\ MainExcept(reason)
  /\ UNCHANGED << idx, processed_files >>

\* The except branch of remove_background: print the failure, return None;
\* the loop body then skips the item.
RemoveBackgroundFails(reason) ==
  /\ log' = Append(log, Current)
  /\ outcome' = Append(outcome, reason)
  /\ idx' = idx + 1
  /\ pc' = AfterItem
  /\ UNCHANGED << exit_code, cause, at, temp_dir, processed_files >>

\* Reading the file, rembg.remove or Image.open raises an Exception.
ItemFails ==
  /\ pc = "process"
  /\ attempted' = Append(attempted, Current)
  /\ \E reason \in ItemErrors : RemoveBackgroundFails(reason)
  /\ UNCHANGED << env, session, listing, image_files, output_zip, interrupted >>

\* result_image.save raises (e.g. the disk is full): no handler in
\* process_folder; the temporary directory is removed on the way out.
ItemSaveFails ==
  /\ pc = "process"
  /\ attempted' = Append(attempted, Current)
  /\ temp_dir' = NoFiles
  /\ MainExcept("save_error")
  /\ UNCHANGED << env, session, listing, image_files, idx, processed_files,
                  output_zip, log, outcome, interrupted >>

\* Variant: the check of processed_files is missing.
CheckProcessed_missing ==
  /\ pc = "check"
  /\ pc' = "open_zip"
  /\ UNCHANGED << exit_code, cause, at, env, session, listing, image_files,
                  loop, output_zip, interrupted >>

\* Variant: the ZipFile is created before processed_files is checked.
CheckProcessed_after_open ==
  /\ pc = "check"
  /\ IF processed_files = << >>
       THEN /\ temp_dir' = NoFiles
            /\ output_zip' = [state |-> "closed", entries |-> << >>]
            /\ MainResult(FALSE, "none_processed")
       ELSE /\ pc' = "open_zip"
            /\ UNCHANGED << exit_code, cause, at, temp_dir, output_zip >>
  /\ UNCHANGED << env, session, listing, image_files, idx, processed_files,
                  log, attempted, outcome, interrupted >>

\* if not processed_files: return False
CheckProcessed ==
  /\ pc = "check"
  /\ IF processed_files = << >>
       THEN /\ temp_dir' = NoFiles
            /\ MainResult(FALSE, "none_processed")
       ELSE /\ pc' = "open_zip"
            /\ UNCHANGED << exit_code, cause, at, temp_dir >>
  /\ UNCHANGED << env, session, listing, image_files, idx, processed_files,
                  output_zip, log, attempted, outcome, interrupted >>

(***************************************************************************)
(* process_folder: the ZIP archive                                         *)
(***************************************************************************)

ImageEntry(pf) == [name |-> pf.arcname, kind |-> "image", src |-> temp_dir[pf.path], count |-> 0]

\* zipf.writestr("README.txt", self._generate_readme(len(processed_files)))
ReadmeEntry == [name |-> README_TXT, kind |-> "manifest", src |-> << >>,
                count |-> Len(processed_files)]

\* An exception leaves the with block of the ZipFile: __exit__ calls close(),
\* which writes the central directory of what was written so far, or fails
\* in turn and leaves a file without one.
ZipAbandoned == { [state |-> st, entries |-> output_zip.entries] : st \in { "closed", "corrupt" } }

\* zipfile.ZipFile(output_zip, 'w', ...): creates or truncates the file.
OpenZip ==
  /\ pc = "open_zip"
  /\ output_zip' = [state |-> "open", entries |-> << >>]
  /\ pc' = "write_zip"
  /\ UNCHANGED << exit_code, cause, at, env, session, listing, image_files,
                  loop, interrupted >>

\* The file cannot be created (permission denied, no such device, ...).
OpenZipFails ==
  /\ pc = "open_zip"
  /\ temp_dir' = NoFiles
  /\ MainExcept("archive_error")
  /\ UNCHANGED << env, session, listing, image_files, idx, processed_files,
                  output_zip, log, attempted, outcome, interrupted >>

\* zipf.write(file_path, archive_name) for the next processed file.
WriteEntry ==
  /\ pc = "write_zip"
  /\ Len(output_zip.entries) < Len(processed_files)
  /\ output_zip' =
       [output_zip EXCEPT
          !.entries = Append(@, ImageEntry(processed_files[Len(output_zip.entries) + 1]))]
  /\ UNCHANGED << pc, exit_code, cause, at, env, session, listing, image_files,
                  loop, interrupted >>

\* zipf.write or zipf.writestr raises (e.g. the disk is full).
WriteFails ==
  /\ pc = "write_zip"
  /\ output_zip' \in ZipAbandoned
  /\ temp_dir' = NoFiles
  /\ MainExcept("archive_error")
  /\ UNCHANGED << env, session, listing, image_files, idx, processed_files,
                  log, attempted, outcome, interrupted >>

\* After the loop: the README entry, then the with block closes the archive.
WriteReadmeAndClose ==
  /\ pc = "write_zip"
  /\ Len(output_zip.entries) = Len(processed_files)
  /\ output_zip' = [state |-> "closed", entries |-> Append(output_zip.entries, ReadmeEntry)]
  /\ pc' = "report"
  /\ UNCHANGED << exit_code, cause, at, env, session, listing, image_files,
                  loop, interrupted >>

\* The prints, output_zip.stat(), the removal of the temporary directory,
\* return True, and main()'s sys.exit(0).
ReportAndReturn ==
  /\ pc = "report"
  /\ temp_dir' = NoFiles
  /\ MainResult(TRUE, "success")
  /\ UNCHANGED << env, session, listing, image_files, idx, processed_files,
                  output_zip, log, attempted, outcome, interrupted >>

\* output_zip.stat() or the removal of the temporary directory raises.
ReportFails ==
  /\ pc = "report"
  /\ temp_dir' = NoFiles
  /\ MainExcept("report_error")
  /\ UNCHANGED << env, session, listing, image_files, idx, processed_files,
                  output_zip, log, attempted, outcome, interrupted >>

(***************************************************************************)
(* KeyboardInterrupt                                                       *)
(***************************************************************************)

\* Variant: remove_background uses a bare except, which also catches
\* KeyboardInterrupt.
RemoveBackgroundInterrupted_caught ==
  /\ log' = Append(log, Current)
  /\ outcome' = Append(outcome, "KeyboardInterrupt")
  /\ idx' = idx + 1
  /\ pc' = AfterItem
  /\ UNCHANGED << exit_code, cause, at, temp_dir, processed_files >>

\* The interrupt arrives inside remove_background: KeyboardInterrupt is no
\* Exception, so the except clause does not catch it; it unwinds to main().
RemoveBackgroundInterrupted ==
  /\ temp_dir' = NoFiles
  /\ MainExcept("interrupt")
  /\ UNCHANGED << idx, processed_files, log, outcome >>

\* What the output path holds once the interrupt has unwound the stack.
ZipAfterInterrupt ==
  IF pc = "write_zip" THEN ZipAbandoned ELSE { output_zip }

KeyboardInterrupt ==
  /\ pc # "exit"
  /\ interrupted' = TRUE
  /\ IF pc = "process"
       THEN /\ attempted' = Append(attempted, Current)
            /\ RemoveBackgroundInterrupted
            /\ UNCHANGED output_zip
       ELSE /\ temp_dir' = NoFiles
            /\ MainExcept("interrupt")
            /\ output_zip' \in ZipAfterInterrupt
            /\ UNCHANGED << idx, processed_files, log, outcome, attempted >>
  /\ UNCHANGED << env, session, listing, image_files >>

(***************************************************************************)
(* Specification                                                           *)
(***************************************************************************)

Next ==
  \/ InitializeModelOk
  \/ InitializeModelFails
  \/ ValidateInput
  \/ Discover
  \/ DiscoverFails
  \/ ItemOk
  \/ ItemFails
  \/ ItemSaveFails
  \/ CheckProcessed
  \/ OpenZip
  \/ OpenZipFails
  \/ WriteEntry
  \/ WriteFails
  \/ WriteReadmeAndClose
  \/ ReportAndReturn
  \/ ReportFails
  \/ KeyboardInterrupt

Spec == Init /\ [][Next]_vars

\* Every step of the program returns or raises, so a run that can take a
\* step eventually takes one.
FairSpec == Spec /\ WF_vars(Next)

(***************************************************************************)
(* Vocabulary of the properties                                            *)
(***************************************************************************)

\* The iterations that ended in the except branch of remove_background.
Failures == { i \in 1..Len(outcome) : outcome[i] # "ok" }

\* Every discovered image went through a complete iteration.
LoopDone == image_files # << >> /\ Len(outcome) = Len(image_files)

RECURSIVE OkSources(_)
\* The sources of the first n iterations that produced an image, in order.
OkSources(n) ==
  IF n = 0 THEN << >>
  ELSE IF outcome[n] = "ok" THEN Append(OkSources(n - 1), image_files[n])
  ELSE OkSources(n - 1)

Succeeded == OkSources(Len(outcome))

IsImageEntry(e) == e.name # README_TXT

ImageEntries == SelectSeq(output_zip.entries, IsImageEntry)

ManifestCount == Cardinality({ i \in 1..Len(output_zip.entries) : output_zip.entries[i].name = README_TXT })

\* The output path holds a closed archive with one entry per processed
\* image and the manifest.
ArchiveComplete ==
  /\ output_zip.state = "closed"
  /\ Len(output_zip.entries) = Len(processed_files) + 1
  /\ Len(ImageEntries) = Len(processed_files)
  /\ ManifestCount = 1

\* The state of the run in the terms of the design: the run is NotStarted
\* until process_folder is entered.
RunState ==
  IF pc = "init" \/ (pc = "exit" /\ at = "init") THEN "NotStarted"
  ELSE IF pc \in { "validate", "discover" } THEN "Discovering"
  ELSE IF pc \in { "process", "check" } THEN "Processing"
  ELSE IF pc \in { "open_zip", "write_zip", "report" } THEN "Packaging"
  ELSE IF exit_code = 0 THEN "Done"
  ELSE "Failed"

\* find_images has returned.
Discovered ==
  \/ pc \in { "process", "check", "open_zip", "write_zip", "report" }
  \/ pc = "exit" /\ at \in { "process", "check", "open_zip", "write_zip", "report" }
  \/ pc = "exit" /\ at = "discover" /\ cause = "no_images"

\* The names of the folder that are regular files with a recognized
\* extension, written out by hand.
Recognized == { A_JPG, B_PNG_UP, PHOTO_JPG, PHOTO_PNG } \cap { e.name : e \in dir }

Range(q) == { q[i] : i \in 1..Len(q) }

(***************************************************************************)
(* C1                                                                      *)
(***************************************************************************)

C1_Result ==
  /\ \A k \in 1..Len(image_files) :
       (LoopDone /\ Failures = {k}) =>
          /\ attempted = image_files
          /\ Len(processed_files) = Len(image_files) - 1
          /\ Succeeded = SubSeq(image_files, 1, k - 1) \o SubSeq(image_files, k + 1, Len(image_files))
          /\ log = << image_files[k] >>
  /\ (pc = "exit" /\ at = "process") => Len(attempted) = Len(outcome) + 1

C1_Step ==
  (pc = "process" /\ Len(log') > Len(log)) =>
     /\ pc' \in { "process", "check" }
     /\ exit_code' = -1
     /\ idx' = idx + 1
     /\ log' = Append(log, Current)

\* C1: when the per-item step fails on exactly one item K, every other item
\* is still attempted, the run ends the loop with total-1 processed images
\* and one recorded failure naming K, and a failed item never ends the batch.
C1_FailureIsolation == []C1_Result /\ [][C1_Step]_vars

C1_Witness ==
  /\ pc = "exit" /\ exit_code = 0
  /\ Len(image_files) = 3
  /\ Failures = {2}
  /\ Len(processed_files) = 2

(***************************************************************************)
(* C2                                                                      *)
(***************************************************************************)

\* C2: a run that ends with success and S processed images leaves an
\* archive of exactly S image entries and one README.txt, the i-th image
\* entry named after the stem of the i-th processed source.
C2_ArchiveContents ==
  (pc = "exit" /\ exit_code = 0) =>
     /\ output_zip.state = "closed"
     /\ Len(output_zip.entries) = Len(Succeeded) + 1
     /\ Len(ImageEntries) = Len(Succeeded)
     /\ ManifestCount = 1
     /\ \A i \in 1..Len(ImageEntries) :
          ImageEntries[i].name = Stem(Succeeded[i]) \o NO_BG_PNG

C2_Witness ==
  /\ pc = "exit" /\ exit_code = 0
  /\ Len(Succeeded) = 2
  /\ Failures # {}
  /\ B_PNG_UP \in Range(Succeeded)

(***************************************************************************)
(* C3                                                                      *)
(***************************************************************************)

\* C3 as stated: the exit code is 0 exactly when the archive was written
\* and at least one image succeeded, and 1 otherwise.
C3_ExitCodeIff ==
  pc = "exit" =>
     /\ exit_code \in { 0, 1 }
     /\ exit_code = 0 <=> (ArchiveComplete /\ Len(processed_files) >= 1)

\* C3: the exit code is 0 exactly when the archive was written, at least
\* one image succeeded and nothing (an interrupt, an error) ended the run
\* after the archive was closed; in every other terminating run it is 1.
C3_ExitCode ==
  pc = "exit" =>
     /\ exit_code \in { 0, 1 }
     /\ exit_code = 0 <=>
          /\ ArchiveComplete
          /\ Len(processed_files) >= 1
          /\ ~interrupted
          /\ cause # "report_error"
     /\ cause \in { "bad_input", "no_images", "none_processed", "archive_error",
                    "interrupt", "model_load", "discovery_error", "save_error" }
          => exit_code = 1
     /\ (exit_code = 1 /\ ArchiveComplete) => at = "report"

C3_Witness ==
  /\ pc = "exit" /\ exit_code = 1
  /\ ArchiveComplete
  /\ interrupted

(***************************************************************************)
(* C4                                                                      *)
(***************************************************************************)

\* C4: when the run is over, the output path holds what it held before the
\* run or a complete archive, never a partially written one.
C4_AtomicArchive ==
  pc = "exit" => (output_zip = output_before \/ ArchiveComplete)

(***************************************************************************)
(* C5                                                                      *)
(***************************************************************************)

\* The fatal conditions the state machine of the design names.
NamedFailures ==
  { "bad_input", "discovery_error", "no_images", "none_processed", "archive_error" }

\* C5 as stated: Failed is entered only for the named conditions.
C5_FailedOnlyNamed == RunState = "Failed" => cause \in NamedFailures

C5_States ==
  /\ RunState = "Packaging" => Len(processed_files) >= 1
  /\ RunState = "Done" => (Len(processed_files) >= 1 /\ cause = "success")
  /\ RunState = "Failed" =>
       cause \in NamedFailures \cup { "save_error", "report_error", "interrupt" }
  /\ (pc = "exit" /\ cause \in NamedFailures) => RunState = "Failed"
  /\ (pc = "exit" /\ at # "init" /\ processed_files = << >>) => RunState = "Failed"

C5_Step ==
  \/ RunState' = RunState
  \/ RunState = "NotStarted" /\ RunState' = "Discovering"
  \/ RunState = "Discovering" /\ RunState' \in { "Processing", "Failed" }
  \/ RunState = "Processing" /\ RunState' \in { "Packaging", "Failed" }
  \/ RunState = "Packaging" /\ RunState' \in { "Done", "Failed" }

\* C5: the run moves Discovering -> Processing -> Packaging -> Done | Failed
\* in that order, enters Packaging only with a processed image, enters
\* Failed for the named conditions and also when saving an image raises,
\* when the final report raises or when the user interrupts; Done and
\* Failed are left by no step, and every run ends.
C5_StateMachine ==
  /\ []C5_States
  /\ [][C5_Step]_vars
  /\ [][pc = "exit" => pc' = "exit"]_vars
  /\ <>(pc = "exit")

C5_Witness ==
  /\ RunState = "Failed"
  /\ cause = "save_error"
  /\ Len(processed_files) >= 1

(***************************************************************************)
(* C6                                                                      *)
(***************************************************************************)

\* C6: an interrupt ends the run with status 1; when it arrives while an
\* item is processed, that item is not recorded as a failure, no further
\* item is started and the output path is left as it was.
C6_Interrupt ==
  interrupted =>
     /\ pc = "exit"
     /\ exit_code = 1
     /\ at = "process" =>
          /\ output_zip = output_before
          /\ attempted = SubSeq(image_files, 1, idx + 1)
          /\ Len(outcome) = idx
          /\ Len(log) = Cardinality(Failures)

C6_Witness ==
  /\ interrupted
  /\ at = "process"
  /\ idx = 1
  /\ Len(image_files) = 3

(***************************************************************************)
(* C7                                                                      *)
(***************************************************************************)

\* C7: find_images returns exactly the recognized files of the folder, each
\* once, in ascending order, whatever the order of the listing; with none
\* it returns the empty list.
C7_FindImages ==
  Discovered =>
     /\ Range(image_files) = Recognized
     /\ Len(image_files) = Cardinality(Recognized)
     /\ \A i, j \in 1..Len(image_files) : i < j => StrLess(image_files[i], image_files[j])
     /\ Recognized = {} => (image_files = << >> /\ cause = "no_images")

C7_Witness ==
  /\ Discovered
  /\ Len(listing) = 3
  /\ listing[1].name = PHOTO_PNG
  /\ listing[2].name = SUB_PNG
  /\ listing[3].name = B_PNG_UP
  /\ image_files = << B_PNG_UP, PHOTO_PNG >>

(***************************************************************************)
(* C8                                                                      *)
(***************************************************************************)

\* C8: a run that fails before packaging (bad input path, no image found,
\* no image processed) leaves the output path as it was and no temporary
\* file behind.
C8_NoArchiveOnEarlyFailure ==
  (pc = "exit" /\ cause \in { "bad_input", "no_images", "none_processed" }) =>
     /\ exit_code = 1
     /\ output_zip = output_before
     /\ temp_dir = NoFiles

C8_Witness ==
  /\ pc = "exit"
  /\ cause = "none_processed"
  /\ output_before = Old
  /\ Len(attempted) = 2

(***************************************************************************)
(* C9                                                                      *)
(***************************************************************************)

\* C9: without a loaded model session the run never gets past construction:
\* it ends with status 1, nothing is listed, no image is read or
\* transformed and the output path is left as it was.
C9_ModelLoadFailure ==
  session = "none" =>
     /\ pc \in { "init", "exit" }
     /\ pc = "exit" => (exit_code = 1 /\ at = "init")
     /\ listing = << >>
     /\ image_files = << >>
     /\ attempted = << >>
     /\ output_zip = output_before

C9_Witness ==
  /\ pc = "exit"
  /\ cause = "model_load"
  /\ A_JPG \in { e.name : e \in dir }

(***************************************************************************)
(* C10                                                                     *)
(***************************************************************************)

\* The processed sources that map to the entry name n.
SourcesOf(n) == { s \in Range(Succeeded) : Stem(s) \o NO_BG_PNG = n }

\* The one of a set of names that sorts last.
LastSorted(S) == CHOOSE m \in S : \A s \in S \ {m} : StrLess(s, m)

\* C10: sources that share a stem share an entry name; the archive keeps
\* one entry per source under that name, and each of them holds the image
\* of the source that sorts last.
C10_LastProcessedWins ==
  (pc = "exit" /\ exit_code = 0) =>
     \A i \in 1..Len(ImageEntries) :
        LET n == ImageEntries[i].name
        IN  /\ SourcesOf(n) # {}
            /\ Cardinality({ j \in 1..Len(ImageEntries) : ImageEntries[j].name = n })
                 = Cardinality(SourcesOf(n))
            /\ ImageEntries[i].src = LastSorted(SourcesOf(n))

C10_Witness ==
  /\ pc = "exit" /\ exit_code = 0
  /\ Len(ImageEntries) = 2
  /\ ImageEntries[1].name = ImageEntries[2].name
  /\ ImageEntries[1].src = PHOTO_PNG
  /\ Range(Succeeded) = { PHOTO_JPG, PHOTO_PNG }

=============================================================================
